---- MODULE Spec2Model ----
(***************************************************************************)
(* The List ADT of main.cpp: heap-allocated nodes (tag, head, tail), the   *)
(* elimination `cases`, the constructors cons / nil / operator&=, and the  *)
(* combinators foldr, sum, map and filter, with T = int.                   *)
(*                                                                         *)
(* The heap is a sequence of nodes; a List<T>::ptr is an index into it     *)
(* (NullPtr is the empty shared_ptr).  Closures (the lambdas of the source *)
(* and the std::function arguments a caller supplies) are records; they    *)
(* are invoked through Call0 / Call1 / Call2.  Every operator of the       *)
(* program takes the machine state `st` last and returns the machine state *)
(* after the call, with the returned value in st.ret.                      *)
(***************************************************************************)
EXTENDS Integers, Sequences, FiniteSets, TLC

VARIABLES
    heap,     \* the nodes allocated so far (new List<T>()), in the order of
              \* their allocation; a deleted node leaves Freed in its place
    ctor,     \* history: per address, the constructor call that built the node
    calls,    \* trace of the calls made during the last operation
    op,       \* the last operation the caller ran, with its arguments
    ret,      \* the value the last operation returned
    halted,   \* the process was aborted by a trapping signed overflow
    build     \* what this build does on signed overflow: "wrap" or "trap"

vars == <<heap, ctor, calls, op, ret, halted, build>>

-----------------------------------------------------------------------------
(* Bounds of the model. *)

\* The caller runs an operation only while at most MaxNodes nodes have been
\* allocated (and allocates a node itself only below that); an operation
\* that has started allocates whatever it needs.
MaxNodes == 3

-----------------------------------------------------------------------------
(* T = int: a 32-bit two's-complement integer. *)

INT_MAX == 2147483647
INT_MIN == (-INT_MAX) - 1
NullPtr == 0

\* The element values the caller puts in lists.
Vals == {1, 2, 3, INT_MAX}

\* a + b leaves the range of int (decided without leaving it).
AddOverflows(a, b) ==
    \/ b > 0 /\ a > INT_MAX - b
    \/ b < 0 /\ a < INT_MIN - b

\* The two's-complement result of a + b.
WrapAdd(a, b) ==
    IF ~AddOverflows(a, b) THEN a + b
    ELSE IF b > 0 THEN (a + INT_MIN) + (b + INT_MIN)
    ELSE (a - INT_MIN) + (b - INT_MIN)

\* C++ integer division and remainder by a positive divisor (truncating).
CRem(a, b) ==
    IF a >= 0 THEN a % b
    ELSE IF a % b = 0 THEN 0 ELSE (a % b) - b

CDiv(a, b) == (a - CRem(a, b)) \div b

\* The machine state with v as the returned value.
Return(st, v) == [st EXCEPT !.ret = v]

\* The machine state with one more call in the trace.
Log(st, fn, args) == [st EXCEPT !.calls = Append(@, [fn |-> fn, args |-> args])]

\* int + int.  Signed overflow is undefined behaviour: the build traps (the
\* process is aborted and nothing runs after it) or the addition wraps.
IntAdd(a, b, st) ==
    IF AddOverflows(a, b) /\ build = "trap"
    THEN [st EXCEPT !.dead = TRUE]
    ELSE Return(st, WrapAdd(a, b))

-----------------------------------------------------------------------------
(* class List<T> *)

\* Mutant: the head is written through the tail pointer as well.
List_cons_overwrite(head, tail, st) ==
    IF st.dead THEN st ELSE
    LET h == IF st.heap[tail].tag = "Cons"
             THEN [st.heap EXCEPT ![tail].head = head]
             ELSE st.heap
    IN [st EXCEPT !.heap = Append(h, [tag |-> "Cons", head |-> head, tail |-> tail]),
                  !.ctor = Append(@, [c |-> "cons", head |-> head, tail |-> tail]),
                  !.ret  = Len(st.heap) + 1]

\* Mutant: the new node is stored as its own tail.
List_cons_selftail(head, tail, st) ==
    IF st.dead THEN st ELSE
    [st EXCEPT !.heap = Append(@, [tag |-> "Cons", head |-> head, tail |-> Len(st.heap) + 1]),
               !.ctor = Append(@, [c |-> "cons", head |-> head, tail |-> tail]),
               !.ret  = Len(st.heap) + 1]

\* List<T>::cons
List_cons(head, tail, st) ==
    IF st.dead THEN st ELSE
    [st EXCEPT !.heap = Append(@, [tag |-> "Cons", head |-> head, tail |-> tail]),
               !.ctor = Append(@, [c |-> "cons", head |-> head, tail |-> tail]),
               !.ret  = Len(st.heap) + 1]

\* List<T>::nil: the head is left uninitialised (and is never read), the
\* tail is the empty shared_ptr.
List_nil(st) ==
    IF st.dead THEN st ELSE
    [st EXCEPT !.heap = Append(@, [tag |-> "Nil", tail |-> NullPtr]),
               !.ctor = Append(@, [c |-> "nil"]),
               !.ret  = Len(st.heap) + 1]

\* The free wrappers and the right-associative operator.
cons(head, tail, st) == List_cons(head, tail, st)

nil(st) == List_nil(st)

OpAndEq(head, tail, st) == List_cons(head, tail, st)

-----------------------------------------------------------------------------
(* The std::function values a caller supplies. *)

\* [](int x) { return x * 2; }
double(x, st) == IntAdd(x, x, st)

\* [](int x) { return x / 2; }
half(x, st) == Return(st, CDiv(x, 2))

\* [](int x) { return x % 2 == 0; }
isEven(x, st) == Return(st, CRem(x, 2) = 0)

\* [](int x) { return x > 0; }
isPositive(x, st) == Return(st, x > 0)

\* [](int x, int acc) { return (acc % 100) * 10 + x % 10; }
decimal(x, acc, st) == Return(st, CRem(acc, 100) * 10 + CRem(x, 10))

\* [](int x, int n) { return n % 100 + 1; }
count(x, n, st) == Return(st, CRem(n, 100) + 1)

\* cases<pair>: [](int h, ptr t) { return make_pair(h, t); } and
\* []() { return make_pair(-1, nullptr); }
mkPair(head, tail, st) == Return(st, <<head, tail>>)

noPair(st) == Return(st, <<-1, NullPtr>>)

UnaryFns == {[fn |-> "double"], [fn |-> "half"]}
ComposedFns == {[fn |-> "compose", g |-> g, f |-> f] : g \in UnaryFns, f \in UnaryFns}
MapFns == UnaryFns \cup {c \in ComposedFns : c.g # c.f}
Preds == {[fn |-> "isEven"], [fn |-> "isPositive"]}
CombineFns == {[fn |-> "decimal"], [fn |-> "count"]}
Seeds == {7}
CaseFns == {<<[fn |-> "mkPair"], [fn |-> "noPair"]>>}

-----------------------------------------------------------------------------
(* cases, foldr, sum, map, filter *)

RECURSIVE Call1(_, _, _)
RECURSIVE Call2(_, _, _, _)
RECURSIVE foldr(_, _, _, _)
RECURSIVE filter(_, _, _)

\* The nil_case lambda of foldr: [f,acc]() { return acc; }
foldr_nil_case(c, st) == Return(st, c.acc)

\* std::function<R()>::operator()
Call0(c, st) ==
    IF st.dead THEN st ELSE
    LET s == Log(st, c.fn, <<>>) IN
    CASE c.fn = "foldr_nil_case" -> foldr_nil_case(c, s)
      [] c.fn = "noPair"         -> noPair(s)

\* Mutant: the Cons case falls through into the Nil case.
cases_fallthrough(list, cons_case, nil_case, st) ==
    IF st.dead THEN st ELSE
    CASE st.heap[list].tag = "Cons" ->
             Call0(nil_case, Call2(cons_case, st.heap[list].head, st.heap[list].tail, st))
      [] st.heap[list].tag = "Nil"  ->
             Call0(nil_case, st)

\* List<T>::cases
cases(list, cons_case, nil_case, st) ==
    IF st.dead THEN st ELSE
    CASE st.heap[list].tag = "Cons" ->
             Call2(cons_case, st.heap[list].head, st.heap[list].tail, st)
      [] st.heap[list].tag = "Nil"  ->
             Call0(nil_case, st)

\* Mutant: the tail is not folded.
foldr_cons_case_norec(c, head, tail, st) == Call2(c.f, head, c.acc, st)

\* Mutant: a left fold, f is applied before the tail is folded.
foldr_cons_case_left(c, head, tail, st) ==
    LET r == Call2(c.f, head, c.acc, st) IN
    foldr(c.f, r.ret, tail, r)

\* The cons_case lambda of foldr:
\*   [f,acc](T head, ptr tail) { return f(head, foldr(f, acc, tail)); }
foldr_cons_case(c, head, tail, st) ==
    LET r == foldr(c.f, c.acc, tail, st) IN
    Call2(c.f, head, r.ret, r)

foldr(f, acc, list, st) ==
    IF st.dead THEN st ELSE
    cases(list,
          [fn |-> "foldr_cons_case", f |-> f, acc |-> acc],
          [fn |-> "foldr_nil_case", f |-> f, acc |-> acc],
          Log(st, "foldr", <<acc, list>>))

\* Mutant: the sum starts from 1.
sum_from_one(list, st) ==
    IF st.dead THEN st ELSE
    foldr([fn |-> "sum_lambda"], 1, list, Log(st, "sum", <<list>>))

\* The lambda of sum: [](T i, T s) { return i + s; }
sum_lambda(i, s, st) == IntAdd(i, s, st)

sum(list, st) ==
    IF st.dead THEN st ELSE
    foldr([fn |-> "sum_lambda"], 0, list, Log(st, "sum", <<list>>))

\* Mutant: f is not applied.
map_lambda_noapply(c, x, us, st) == OpAndEq(x, us, st)

\* Mutant: the fold starts from the input list instead of nil.
map_onto_input(f, ts, st) ==
    IF st.dead THEN st ELSE
    foldr([fn |-> "map_lambda", f |-> f], ts, ts, Log(st, "map", <<ts>>))

\* The lambda of map: [f](T x, ptr us) { return f(x) &= us; }
map_lambda(c, x, us, st) ==
    LET r == Call1(c.f, x, st) IN
    OpAndEq(r.ret, us, r)

map(f, ts, st) ==
    IF st.dead THEN st ELSE
    LET n == nil(Log(st, "map", <<ts>>)) IN
    foldr([fn |-> "map_lambda", f |-> f], n.ret, ts, n)

\* Mutant: the branches of the test are swapped.
filter_lambda_swapped(c, head, tail, st) ==
    LET p == Call1(c.f, head, st) IN
    IF p.dead THEN p
    ELSE IF ~p.ret
    THEN LET r == filter(c.f, tail, p) IN OpAndEq(head, r.ret, r)
    ELSE filter(c.f, tail, p)

\* The lambda of filter:
\*   [f](T head, ptr tail) {
\*     if (f(head)) return head &= filter<T>(f, tail);
\*     else return filter<T>(f, tail);
\*   }
filter_lambda(c, head, tail, st) ==
    LET p == Call1(c.f, head, st) IN
    IF p.dead THEN p
    ELSE IF p.ret
    THEN LET r == filter(c.f, tail, p) IN OpAndEq(head, r.ret, r)
    ELSE filter(c.f, tail, p)

filter(f, list, st) ==
    IF st.dead THEN st ELSE
    LET n == nil(Log(st, "filter", <<list>>)) IN
    foldr([fn |-> "filter_lambda", f |-> f], n.ret, list, n)

\* std::function<int(int)> f, g; [f,g](int x) { return g(f(x)); }
\* f and g are std::function values: each is run as a call of its own.
compose(c, x, st) ==
    LET r == Call1(c.f, x, st) IN
    Call1(c.g, r.ret, r)

\* std::function<U(T)>::operator()
Call1(c, x, st) ==
    IF st.dead THEN st ELSE
    LET s == Log(st, c.fn, <<x>>) IN
    CASE c.fn = "double"     -> double(x, s)
      [] c.fn = "half"       -> half(x, s)
      [] c.fn = "isEven"     -> isEven(x, s)
      [] c.fn = "isPositive" -> isPositive(x, s)
      [] c.fn = "compose"    -> compose(c, x, s)

\* std::function<R(T,R)>::operator() and std::function<R(T,ptr)>::operator()
Call2(c, a, b, st) ==
    IF st.dead THEN st ELSE
    LET s == Log(st, c.fn, <<a, b>>) IN
    CASE c.fn = "foldr_cons_case" -> foldr_cons_case(c, a, b, s)
      [] c.fn = "sum_lambda"      -> sum_lambda(a, b, s)
      [] c.fn = "map_lambda"      -> map_lambda(c, a, b, s)
      [] c.fn = "filter_lambda"   -> filter_lambda(c, a, b, s)
      [] c.fn = "decimal"         -> decimal(a, b, s)
      [] c.fn = "count"           -> count(a, b, s)
      [] c.fn = "mkPair"          -> mkPair(a, b, s)

-----------------------------------------------------------------------------
(* The caller: one action per operation of the public interface. *)

\* The machine state an operation starts in.
Start == [heap |-> heap, ctor |-> ctor, calls |-> <<>>, dead |-> FALSE, ret |-> NullPtr]

\* A node that ~List has destroyed.
Freed == [tag |-> "Freed", tail |-> NullPtr]

\* The lists the caller can hold: the nodes that have not been deleted.
Lists == {n \in 1..Len(heap) : heap[n].tag # "Freed"}

\* The operations that return a List<T>::ptr.
Builders == {"nil", "cons", "operator&=", "map", "filter"}

\* The nodes of h that a shared_ptr to node n keeps alive (at most fuel + 1).
RECURSIVE Owned(_, _, _)
Owned(h, n, fuel) ==
    IF n \notin 1..Len(h) THEN {}
    ELSE IF h[n].tag = "Cons" /\ fuel > 0 THEN {n} \cup Owned(h, h[n].tail, fuel - 1)
    ELSE {n}

\* The heap when the call has returned and its temporaries are destroyed: a
\* node allocated during the call stays only while the returned pointer
\* owns it (the last shared_ptr to the others is gone, ~List has run).  The
\* caller keeps every pointer it was ever given.
Release(o, r) ==
    LET kept == IF o.name \in Builders THEN Owned(r.heap, r.ret, Len(r.heap)) ELSE {}
    IN [i \in 1..Len(r.heap) |->
           IF i <= Len(heap) \/ i \in kept THEN r.heap[i] ELSE Freed]

\* The caller can run its next operation.
Ready == ~halted /\ Len(heap) <= MaxNodes

\* The operation o has run and left the machine in state r.
Finish(o, r) ==
    /\ heap' = IF r.dead THEN r.heap ELSE Release(o, r)
    /\ ctor' = r.ctor
    /\ calls' = r.calls
    /\ op' = o
    /\ halted' = r.dead
    /\ ret' = IF r.dead THEN NullPtr ELSE r.ret
    /\ UNCHANGED build

DoNil ==
    /\ Ready
    /\ Len(heap) < MaxNodes
    /\ Finish([name |-> "nil"], nil(Start))

DoCons ==
    /\ Ready
    /\ Len(heap) < MaxNodes
    /\ \E h \in Vals, t \in Lists :
          Finish([name |-> "cons", head |-> h, tail |-> t], cons(h, t, Start))

DoOpAndEq ==
    /\ Ready
    /\ Len(heap) < MaxNodes
    /\ \E h \in Vals, t \in Lists :
          Finish([name |-> "operator&=", head |-> h, tail |-> t], OpAndEq(h, t, Start))

DoCases ==
    /\ Ready
    /\ \E l \in Lists, cs \in CaseFns :
          Finish([name |-> "cases", list |-> l, cons_case |-> cs[1], nil_case |-> cs[2]],
                 cases(l, cs[1], cs[2], Start))

DoFoldr ==
    /\ Ready
    /\ \E f \in CombineFns, acc \in Seeds, l \in Lists :
          Finish([name |-> "foldr", f |-> f, acc |-> acc, list |-> l],
                 foldr(f, acc, l, Start))

DoSum ==
    /\ Ready
    /\ \E l \in Lists :
          Finish([name |-> "sum", list |-> l], sum(l, Start))

DoMap ==
    /\ Ready
    /\ \E f \in MapFns, l \in Lists :
          Finish([name |-> "map", f |-> f, list |-> l], map(f, l, Start))

DoFilter ==
    /\ Ready
    /\ \E f \in Preds, l \in Lists :
          Finish([name |-> "filter", f |-> f, list |-> l], filter(f, l, Start))

Init ==
    /\ heap = <<>>
    /\ ctor = <<>>
    /\ calls = <<>>
    /\ op = [name |-> "none"]
    /\ ret = NullPtr
    /\ halted = FALSE
    /\ build \in {"wrap", "trap"}

Next ==
    \/ DoNil
    \/ DoCons
    \/ DoOpAndEq
    \/ DoCases
    \/ DoFoldr
    \/ DoSum
    \/ DoMap
    \/ DoFilter

Spec == Init /\ [][Next]_vars

-----------------------------------------------------------------------------
(* What the claims are stated with. *)

\* The element sequence of the list at address l of heap h.
RECURSIVE ListSeq(_, _)
ListSeq(h, l) ==
    IF h[l].tag = "Nil" THEN <<>> ELSE <<h[l].head>> \o ListSeq(h, h[l].tail)

Elems(l) == ListSeq(heap, l)

\* The value a supplied function returns, as a value.
Apply1(f, x) == Call1(f, x, Start).ret

Apply2(f, x, r) == Call2(f, x, r, Start).ret

\* f(x1, f(x2, ... f(xn, seed)))
RECURSIVE RightNest(_, _, _)
RightNest(f, seed, xs) ==
    IF xs = <<>> THEN seed
    ELSE Apply2(f, Head(xs), RightNest(f, seed, Tail(xs)))

\* The number of calls of fn in the trace.
CallsOf(fn) == Len(SelectSeq(calls, LAMBDA e : e.fn = fn))

\* The node k tail links after node n (NullPtr when the chain leaves the heap).
RECURSIVE Walk(_, _)
Walk(n, k) ==
    IF n \notin Lists THEN NullPtr
    ELSE IF k = 0 THEN n
    ELSE IF heap[n].tag = "Cons" THEN Walk(heap[n].tail, k - 1)
    ELSE NullPtr

\* The number of tail links from node n to a Nil node, -1 when none is
\* reached within fuel links.
RECURSIVE Steps(_, _)
Steps(n, fuel) ==
    IF n \notin Lists THEN -1
    ELSE IF heap[n].tag = "Nil" THEN 0
    ELSE IF fuel = 0 THEN -1
    ELSE LET d == Steps(heap[n].tail, fuel - 1) IN
         IF d < 0 THEN -1 ELSE d + 1

\* Integers beyond 32 bits, as a high part and a low part of 16 bits.
Wide(x) == [hi |-> x \div 65536, lo |-> x % 65536]

WideAdd(a, b) ==
    [hi |-> a.hi + b.hi + ((a.lo + b.lo) \div 65536), lo |-> (a.lo + b.lo) % 65536]

\* x1 + x2 + ... + xn over the integers.
RECURSIVE WideSum(_)
WideSum(xs) ==
    IF xs = <<>> THEN Wide(0) ELSE WideAdd(Wide(Head(xs)), WideSum(Tail(xs)))

FitsInt(w) == w.hi \in (-32768)..32767

\* Every partial sum xk + ... + xn lies in the range of int.
PartialSumsFit(xs) ==
    \A k \in 1..Len(xs) : FitsInt(WideSum(SubSeq(xs, k, Len(xs))))

\* The operation named name has returned.
Returned(name) == op.name = name /\ ~halted

\* The function the caller (or sum itself) supplies to the fold.
SuppliedFn == IF op.name = "sum" THEN "sum_lambda" ELSE op.f.fn

\* The arguments of the calls of f that foldr(f, seed, xs) makes, in order.
RECURSIVE ExpectedCalls(_, _, _)
ExpectedCalls(f, seed, xs) ==
    IF xs = <<>> THEN <<>>
    ELSE Append(ExpectedCalls(f, seed, Tail(xs)),
                <<Head(xs), RightNest(f, seed, Tail(xs))>>)

\* The arguments of the calls of fn in the trace, in order.
ArgsOf(fn) ==
    LET cs == SelectSeq(calls, LAMBDA e : e.fn = fn) IN
    [i \in 1..Len(cs) |-> cs[i].args]

-----------------------------------------------------------------------------
(* The claims. *)

\* C1: cases on a node built by cons(h, t) invokes cons_case alone, with the
\* head h and the tail t that were given to cons, and returns its result;
\* cases on a node built by nil() invokes nil_case alone and returns its result.
C1_CasesRoundTrip ==
    Returned("cases") =>
        LET c == ctor[op.list] IN
        IF c.c = "cons"
        THEN /\ calls = <<[fn |-> op.cons_case.fn, args |-> <<c.head, c.tail>>]>>
             /\ ret = Apply2(op.cons_case, c.head, c.tail)
        ELSE /\ calls = <<[fn |-> op.nil_case.fn, args |-> <<>>]>>
             /\ ret = Call0(op.nil_case, Start).ret

C1_Witness ==
    /\ Returned("cases")
    /\ op.cons_case.fn = "mkPair"
    /\ ctor[op.list].c = "cons"
    /\ ret[1] = 2
    /\ heap[ret[2]].tag = "Cons"

\* C2: foldr(f, seed, [x1..xn]) is f(x1, f(x2, ... f(xn, seed))): it is seed on
\* nil() and f(h, foldr(f, seed, t)) on cons(h, t).
C2_FoldrRightNested ==
    Returned("foldr") =>
        /\ ret = RightNest(op.f, op.acc, Elems(op.list))
        /\ IF heap[op.list].tag = "Nil"
           THEN ret = op.acc
           ELSE ret = Apply2(op.f, heap[op.list].head,
                             foldr(op.f, op.acc, heap[op.list].tail, Start).ret)

C2_Witness ==
    /\ Returned("foldr")
    /\ op.f.fn = "decimal"
    /\ op.acc = 7
    /\ Elems(op.list) = <<1, 2>>
    /\ ret = 721

\* C3: map(f, [x1..xn]) has exactly n elements, the i-th being f(xi).
C3_MapElementwise ==
    Returned("map") =>
        LET xs == Elems(op.list) IN
        Elems(ret) = [i \in 1..Len(xs) |-> Apply1(op.f, xs[i])]

C3_Witness ==
    /\ Returned("map")
    /\ op.f.fn = "double"
    /\ Elems(op.list) = <<2, 3>>
    /\ Elems(ret) = <<4, 6>>

\* C4: filter(pred, list) is the subsequence of the elements of list that
\* satisfy pred, in their order, and is no longer than list.
C4_FilterSubsequence ==
    Returned("filter") =>
        LET xs == Elems(op.list) IN
        /\ Elems(ret) = SelectSeq(xs, LAMBDA x : Apply1(op.f, x))
        /\ Len(Elems(ret)) <= Len(xs)

C4_Witness ==
    /\ Returned("filter")
    /\ op.f.fn = "isEven"
    /\ Elems(op.list) = <<2, 3>>
    /\ Elems(ret) = <<2>>

\* C5 as stated: the value sum returns for any list of ints is
\* x1 + ... + xn (over the integers), and 0 for the empty list.
C5_SumOfAnyList ==
    Returned("sum") => Wide(ret) = WideSum(Elems(op.list))

\* C5 as amended: when every partial sum xk + ... + xn lies in the range of
\* int, sum returns x1 + ... + xn, and 0 on the empty list.
C5_SumWithinRange ==
    (op.name = "sum" /\ PartialSumsFit(Elems(op.list))) =>
        /\ ~halted
        /\ Wide(ret) = WideSum(Elems(op.list))
        /\ Elems(op.list) = <<>> => ret = 0

C5_Witness ==
    /\ Returned("sum")
    /\ Elems(op.list) = <<2, 3>>
    /\ ret = 5

\* C6: sum, map and filter over n elements invoke the supplied function
\* exactly n times, in one foldr traversal (n + 1 calls of foldr), with no
\* further call of the combinator itself.
C6_OneVisitPerNode ==
    (op.name \in {"sum", "map", "filter"} /\ ~halted) =>
        LET n == Len(Elems(op.list)) IN
        /\ CallsOf(SuppliedFn) = n
        /\ CallsOf("foldr") = n + 1
        /\ CallsOf(op.name) = 1

\* C7: no operation changes a node that exists: every node keeps its tag,
\* head and tail, and every list keeps its element sequence.
KeepsNodes ==
    \A i \in Lists :
        /\ i <= Len(heap')
        /\ heap'[i] = heap[i]
        /\ ListSeq(heap', i) = ListSeq(heap, i)

C7_NoMutation == [][KeepsNodes]_vars

C7_Witness ==
    /\ Returned("operator&=")
    /\ \E i \in Lists :
          /\ i # Len(heap)
          /\ heap[i].tag = "Cons"
          /\ heap[i].tail = op.tail
          /\ heap[i].head # op.head
          /\ ListSeq(heap, op.tail) = <<>>
          /\ ListSeq(heap, i) = <<heap[i].head>>

\* map(g, map(f, list)), run from the present heap.
MapMap(g, f, list) == LET inner == map(f, list, Start) IN map(g, inner.ret, inner)

\* C8: for all f and g, map(g o f, list) has the element sequence of
\* map(g, map(f, list)).
C8_MapFunctorLaw ==
    (Returned("map") /\ op.f.fn = "compose") =>
        LET outer == MapMap(op.f.g, op.f.f, op.list) IN
        /\ ~outer.dead
        /\ ListSeq(outer.heap, outer.ret) = Elems(ret)

C8_Witness ==
    /\ Returned("map")
    /\ op.f = [fn |-> "compose", g |-> [fn |-> "double"], f |-> [fn |-> "half"]]
    /\ Elems(op.list) = <<INT_MAX, 3>>
    /\ Elems(ret) = <<2147483646, 2>>

\* C9: foldr(f, seed, [x1..xn]) invokes f exactly n times, for xn first and
\* x1 last, each time after the fold of the tail and with its result as the
\* second argument; on the empty list f is not invoked.
C9_FoldrCallOrder ==
    Returned("foldr") =>
        LET xs == Elems(op.list) IN
        /\ CallsOf(op.f.fn) = Len(xs)
        /\ ArgsOf(op.f.fn) = ExpectedCalls(op.f, op.acc, xs)
        /\ \A i, j \in 1..Len(calls) :
              (calls[i].fn = "foldr" /\ calls[j].fn = op.f.fn) => i < j

C9_Witness ==
    /\ Returned("foldr")
    /\ op.f.fn = "decimal"
    /\ op.acc = 7
    /\ ArgsOf("decimal") = << <<2, 7>>, <<1, 72>> >>

\* C10: every list is finite and acyclic: the tail of a Cons node is a node,
\* no node is reached from itself, and the tail chain of a node reaches a
\* Nil node after exactly length(list) steps.
C10_FiniteAcyclic ==
    \A n \in Lists :
        LET d == Steps(n, Len(heap)) IN
        /\ heap[n].tag = "Cons" => heap[n].tail \in Lists
        /\ d >= 0
        /\ heap[Walk(n, d)].tag = "Nil"
        /\ \A k \in 1..d : Walk(n, k) # n
        /\ Len(ListSeq(heap, n)) = d

C10_Witness ==
    /\ Returned("filter")
    /\ Len(Elems(ret)) = 2
    /\ \E n \in 1..Len(heap) : heap[n] = Freed
====
